---- MODULE Spec2Model ----
(***************************************************************************)
(* A model of agentstr's capability router (a2a.py) and messaging facade   *)
(* (nostr_client.py).                                                      *)
(*                                                                         *)
(* Python strings are sequences of one-character (or one-token) strings,   *)
(* so that str.lower(), find/rfind, slicing and concatenation are computed *)
(* and not assumed.  Values decoded from JSON carry their JSON type.       *)
(***************************************************************************)
EXTENDS Integers, Sequences, FiniteSets, TLC

VARIABLES
    pc,            \* position of the foreground caller in the specification at hand
    call,          \* arguments of the router call: version, card, request, thread, llm
    outcome,       \* what the router call gave back to its caller
    CHAT_HISTORY,  \* a2a.py:92, thread id -> accumulated text
    issued,        \* per thread id, the raw requests issued so far, in call order
    prompt,        \* the prompt handed to llm_callable by the last call
    nCalls,        \* number of router calls made
    relay,         \* the primary relay's latest profile-metadata event, if any
    publishes,     \* number of events update_metadata has sent to the relay
    upd,           \* the last two update_metadata calls: arguments and effect
    clock,         \* time.time(), in whole seconds
    nUpd,          \* number of update_metadata calls made
    sendPc,        \* the caller of send_direct_message_and_receive_response
    sendCall,      \* what that call handed to EventRelay.send_receive_message
    elapsed,       \* time waited so far by that call
    inbox,         \* direct messages the relay has delivered to this client
    sendResult,    \* what that call gave back to its caller
    nSent,         \* number of events sent; the id of the latest one
    callerPc,      \* the caller of the listener operations
    listeners,     \* the listeners started, in order: where each runs, its filters
    callerSteps,   \* work the caller has done after starting listeners
    asked,         \* per listener, what its caller asked of it, and callbacks after that
    relays,        \* NostrClient.relays, the relay URLs given to the constructor
    reachable,     \* the relay URLs that answer at the moment
    contacts,      \* the relay sessions the facade has opened: operation, URL, outcome
    nOps,          \* number of facade operations called
    procs,         \* concurrent agent_router calls: position, arguments, locals
    writes         \* per thread id, the stores into CHAT_HISTORY so far, in order

routerVars == <<pc, call, outcome, CHAT_HISTORY, issued, prompt, nCalls>>
profileVars == <<relay, publishes, upd, clock, nUpd>>
sendVars == <<sendPc, sendCall, elapsed, inbox, sendResult, nSent>>
listenVars == <<callerPc, listeners, callerSteps, asked>>

relayVars == <<relays, reachable, contacts, nOps>>
raceVars == <<procs, writes>>

vars == <<routerVars, profileVars, sendVars, listenVars, relayVars, raceVars>>

-----------------------------------------------------------------------------
(* Bounds of the model *)

MaxSkills == 2
MaxUsed == 2
MaxCalls == 3
MaxUpdates == 2
MaxTimeout == 2
MaxSends == 2
MaxListeners == 2
MaxEvents == 2
MaxSteps == 2
MaxRelays == 2
MaxOps == 2
MaxProcs == 2

-----------------------------------------------------------------------------
(* Python values *)

\* int | None
NoInt == [some |-> FALSE, v |-> 0]
SomeInt(n) == [some |-> TRUE, v |-> n]

\* str | None, for thread_id
NoThread == [some |-> FALSE, id |-> ""]
Thread(id) == [some |-> TRUE, id |-> id]

\* `if thread_id`: None and the empty string are falsy
ThreadTruthy(thread_id) == thread_id.some /\ thread_id.id # ""

\* A value decoded by json.loads, with its JSON type.  An element of a list is
\* a string or a number.
JNull == [t |-> "null", b |-> FALSE, n |-> 0, s |-> <<>>, l |-> <<>>]
JBool(x) == [t |-> "bool", b |-> x, n |-> 0, s |-> <<>>, l |-> <<>>]
JNum(x) == [t |-> "num", b |-> FALSE, n |-> x, s |-> <<>>, l |-> <<>>]
JStr(x) == [t |-> "str", b |-> FALSE, n |-> 0, s |-> x, l |-> <<>>]
JList(x) == [t |-> "list", b |-> FALSE, n |-> 0, s |-> <<>>, l |-> x]
EStr(x) == [str |-> TRUE, s |-> x]
ENum == [str |-> FALSE, s |-> <<>>]

\* Python truthiness of a decoded value
Truthy(v) ==
    CASE v.t = "null" -> FALSE
      [] v.t = "bool" -> v.b
      [] v.t = "num" -> v.n # 0
      [] v.t = "str" -> v.s # <<>>
      [] OTHER -> v.l # <<>>

\* str.lower(), one character at a time
LowerChar(c) ==
    CASE c = "T" -> "t"
      [] c = "R" -> "r"
      [] c = "S" -> "s"
      [] c = "U" -> "u"
      [] c = "F" -> "f"
      [] c = "Y" -> "y"
      [] OTHER -> c

Lower(s) == [i \in 1..Len(s) |-> LowerChar(s[i])]

Min(S) == CHOOSE x \in S : \A y \in S : x <= y
Max(S) == CHOOSE x \in S : \A y \in S : x >= y

\* str.find / str.rfind of a one-token needle: 0-based index, -1 when absent
PyFind(s, k) ==
    LET at == {i \in 1..Len(s) : s[i].k = k}
    IN  IF at = {} THEN -1 ELSE Min(at) - 1

PyRFind(s, k) ==
    LET at == {i \in 1..Len(s) : s[i].k = k}
    IN  IF at = {} THEN -1 ELSE Max(at) - 1

\* s[a:b] with Python's treatment of negative and out-of-range indices
PySlice(s, a, b) ==
    LET n == Len(s)
        norm(i) == IF i < 0 THEN (IF n + i < 0 THEN 0 ELSE n + i)
                   ELSE (IF i > n THEN n ELSE i)
        lo == norm(a)
        hi == norm(b)
    IN  IF lo >= hi THEN <<>> ELSE SubSeq(s, lo + 1, hi)

-----------------------------------------------------------------------------
(* Text returned by the completion capability: a sequence of tokens, each a *)
(* brace, a stretch of prose, or one "key": value member.                   *)

LBrace == [k |-> "lbrace", key |-> "", val |-> JNull]
RBrace == [k |-> "rbrace", key |-> "", val |-> JNull]
Prose == [k |-> "prose", key |-> "", val |-> JNull]
Member(key, val) == [k |-> "member", key |-> key, val |-> val]

\* json.loads: the text decodes iff it is one object, `{` members `}`
JsonDecodable(s) ==
    /\ Len(s) >= 2
    /\ s[1].k = "lbrace"
    /\ s[Len(s)].k = "rbrace"
    /\ \A i \in 2..(Len(s) - 1) : s[i].k = "member"

\* the decoded object: key -> value, the last occurrence of a key winning
JsonLoads(s) ==
    LET keys == {s[i].key : i \in 2..(Len(s) - 1)}
    IN  [key \in keys |-> s[Max({i \in 2..(Len(s) - 1) : s[i].key = key})].val]

\* dict.get(key): None for a missing key
DictGetNoDefault(d, key, default) == IF key \in DOMAIN d THEN d[key] ELSE JNull

\* dict.get(key, default)
DictGet(d, key, default) == IF key \in DOMAIN d THEN d[key] ELSE default

-----------------------------------------------------------------------------
(* Skill, AgentCard *)

Skill(name, satoshis) == [name |-> name, description |-> <<"d">>, satoshis |-> satoshis]

AgentCard(skills, satoshis) ==
    [name |-> <<"agent">>, description |-> <<"about">>, skills |-> skills,
     satoshis |-> satoshis]

-----------------------------------------------------------------------------
(* agent_router, lines 113-117: the conversation memory *)

Blank == <<"\n", "\n">>

\* the history put after the newest request instead of before it
HistoryMessageNewestFirst(user_message, thread_id, hist) ==
    IF ThreadTruthy(thread_id) /\ thread_id.id \in DOMAIN hist
    THEN user_message \o Blank \o hist[thread_id.id]
    ELSE user_message

\* the user_message after `check history`
HistoryMessage(user_message, thread_id, hist) ==
    IF ThreadTruthy(thread_id) /\ thread_id.id \in DOMAIN hist
    THEN hist[thread_id.id] \o Blank \o user_message
    ELSE user_message

\* a store that starts a new map holding the entry of this thread id only
HistoryStoreAlone(user_message, thread_id, hist) ==
    IF ThreadTruthy(thread_id)
    THEN [t \in {thread_id.id} |-> HistoryMessage(user_message, thread_id, hist)]
    ELSE hist

\* CHAT_HISTORY after `check history`
HistoryStore(user_message, thread_id, hist) ==
    IF ThreadTruthy(thread_id)
    THEN [t \in (DOMAIN hist) \cup {thread_id.id} |->
            IF t = thread_id.id THEN HistoryMessage(user_message, thread_id, hist)
            ELSE hist[t]]
    ELSE hist

(* agent_router, lines 123-154: the prompt *)

RECURSIVE SkillLines(_)
SkillLines(skills) ==
    IF skills = <<>> THEN <<>>
    ELSE <<"\n", "- ">> \o Head(skills).name \o <<": ">> \o Head(skills).description
         \o SkillLines(Tail(skills))

BuildPrompt(user_message, agent_card) ==
    <<"You are an agent router", "Name: ">> \o agent_card.name
    \o <<"Description: ">> \o agent_card.description \o <<"Skills:">>
    \o SkillLines(agent_card.skills)
    \o <<"\n", "\n", "User Request History: ", "\n", "\n">> \o user_message
    \o <<"\n", "\n">> \o <<"Respond with a JSON object">>

-----------------------------------------------------------------------------
(* agent_router, lines 173-189: pricing *)

\* the scan without its break: every matching priced skill contributes
RECURSIVE MatchedPriceNoBreak(_, _)
MatchedPriceNoBreak(skills, skill_name) ==
    IF skills = <<>> THEN 0
    ELSE (IF Lower(Head(skills).name) = Lower(skill_name) /\ Head(skills).satoshis.some
          THEN Head(skills).satoshis.v ELSE 0)
         + MatchedPriceNoBreak(Tail(skills), skill_name)

\* the scan comparing the names as they are, without lower()
RECURSIVE MatchedPriceCaseSensitive(_, _)
MatchedPriceCaseSensitive(skills, skill_name) ==
    IF skills = <<>> THEN 0
    ELSE IF Head(skills).name = skill_name /\ Head(skills).satoshis.some
         THEN Head(skills).satoshis.v
         ELSE MatchedPriceCaseSensitive(Tail(skills), skill_name)

\* lines 180-183: the first skill whose lowered name matches and whose price
\* is set contributes, and the scan of the skills stops there (break)
RECURSIVE MatchedPrice(_, _)
MatchedPrice(skills, skill_name) ==
    IF skills = <<>> THEN 0
    ELSE IF Lower(Head(skills).name) = Lower(skill_name) /\ Head(skills).satoshis.some
         THEN Head(skills).satoshis.v
         ELSE MatchedPrice(Tail(skills), skill_name)

\* lines 178-183: skill_cost over the names of skills_used
RECURSIVE SkillCost(_, _)
SkillCost(skills, names) ==
    IF names = <<>> THEN 0
    ELSE MatchedPrice(skills, Head(names)) + SkillCost(skills, Tail(names))

\* lines 174-189, for a truthy can_handle and names that are all strings
RouterCost(agent_card, names) ==
    LET skill_cost == IF names # <<>> THEN SkillCost(agent_card.skills, names) ELSE 0
        cost == IF skill_cost > 0 THEN skill_cost ELSE 0
    IN  IF agent_card.satoshis.some THEN cost + agent_card.satoshis.v ELSE cost

\* what `for skill_name in skills_used` iterates: the elements of a list, the
\* characters of a string
IterElements(v) ==
    IF v.t = "str" THEN [i \in 1..Len(v.s) |-> EStr(<<v.s[i]>>)] ELSE v.l

Iterable(v) == v.t \in {"list", "str"}

\* lines 175-183 raise (TypeError on a non-iterable, AttributeError on
\* skill_name.lower() of a non-string, reached once per skill of the card)
PricingRaises(agent_card, can_handle, skills_used) ==
    /\ Truthy(can_handle)
    /\ Truthy(skills_used)
    /\ \/ ~Iterable(skills_used)
       \/ /\ agent_card.skills # <<>>
          /\ \E i \in 1..Len(IterElements(skills_used)) : ~IterElements(skills_used)[i].str

ElementNames(v) == [i \in 1..Len(IterElements(v)) |-> IterElements(v)[i].s]

-----------------------------------------------------------------------------
(* agent_router, lines 156-200: the decision *)

Returned(can_handle, cost, user_message, skills_used) ==
    [raised |-> FALSE, can_handle |-> can_handle, cost |-> cost,
     user_message |-> user_message, skills_used |-> skills_used]

Raised ==
    [raised |-> TRUE, can_handle |-> JNull, cost |-> 0, user_message |-> JNull,
     skills_used |-> JNull]

\* line 196
ParseError ==
    Returned(JBool(FALSE), 0, JStr(<<"Error parsing LLM response: ", "e">>), JList(<<>>))

\* line 200
RoutingError ==
    Returned(JBool(FALSE), 0, JStr(<<"Error in agent routing: ", "e">>), JList(<<>>))

\* lines 167-192, once json.loads has given `result`
Decide(agent_card, result) ==
    LET can_handle == DictGet(result, "can_handle", JBool(FALSE))
        user_message == DictGet(result, "user_message", JStr(<<>>))
        skills_used == DictGet(result, "skills_used", JList(<<>>))
        cost == IF Truthy(can_handle)
                THEN RouterCost(agent_card,
                                IF Truthy(skills_used) THEN ElementNames(skills_used)
                                ELSE <<>>)
                ELSE 0
    IN  IF PricingRaises(agent_card, can_handle, skills_used) THEN RoutingError
        ELSE Returned(can_handle, cost, user_message, skills_used)

\* line 161: response[response.find('{'):response.rfind('}')+1]
Braced(response) == PySlice(response, PyFind(response, "lbrace"), PyRFind(response, "rbrace") + 1)

\* lines 156-200.  llm: the completion capability's behaviour on this call
TryRoute(agent_card, llm) ==
    CASE llm.kind = "raise" -> RoutingError
      [] llm.kind = "nonstr" -> RoutingError
      [] OTHER ->
            IF JsonDecodable(Braced(llm.text))
            THEN Decide(agent_card, JsonLoads(Braced(llm.text)))
            ELSE ParseError

\* agent_router, lines 95-200: the new conversation memory, the prompt and
\* the returned tuple
agent_router(user_message, agent_card, llm, thread_id, hist) ==
    [hist |-> HistoryStore(user_message, thread_id, hist),
     prompt |-> BuildPrompt(HistoryMessage(user_message, thread_id, hist), agent_card),
     ret |-> TryRoute(agent_card, llm)]

-----------------------------------------------------------------------------
(* RouterResponse, lines 77-89: validation of the fields on construction *)

TrueWords == {<<"1">>, <<"o", "n">>, <<"t">>, <<"t", "r", "u", "e">>, <<"y">>,
              <<"y", "e", "s">>}
FalseWords == {<<"0">>, <<"o", "f", "f">>, <<"f">>, <<"f", "a", "l", "s", "e">>,
               <<"n">>, <<"n", "o">>}

\* can_handle: bool
BoolValid(v) ==
    \/ v.t = "bool"
    \/ v.t = "num" /\ v.n \in {0, 1}
    \/ v.t = "str" /\ Lower(v.s) \in TrueWords \cup FalseWords

BoolCoerced(v) ==
    CASE v.t = "bool" -> v.b
      [] v.t = "num" -> v.n = 1
      [] OTHER -> Lower(v.s) \in TrueWords

\* user_message: str
StrValid(v) == v.t = "str"

\* skills_used: list[str]
StrListValid(v) == v.t = "list" /\ \A i \in 1..Len(v.l) : v.l[i].str

RouterResponse(can_handle, cost_sats, user_message, skills_used) ==
    IF BoolValid(can_handle) /\ StrValid(user_message) /\ StrListValid(skills_used)
    THEN Returned(JBool(BoolCoerced(can_handle)), cost_sats, user_message, skills_used)
    ELSE Raised

\* agent_router_v2, lines 203-222
agent_router_v2(user_message, agent_card, llm, thread_id, hist) ==
    LET r == agent_router(user_message, agent_card, llm, thread_id, hist)
    IN  [hist |-> r.hist,
         prompt |-> r.prompt,
         ret |-> RouterResponse(r.ret.can_handle, r.ret.cost, r.ret.user_message,
                                r.ret.skills_used)]

Route(ver, user_message, agent_card, llm, thread_id, hist) ==
    IF ver = "v2" THEN agent_router_v2(user_message, agent_card, llm, thread_id, hist)
    ELSE agent_router(user_message, agent_card, llm, thread_id, hist)

-----------------------------------------------------------------------------
(* pynostr's Metadata as update_metadata uses it: the ten profile fields,  *)
(* each a string or None, and the content serialised from them             *)

FieldOrder ==
    <<"name", "about", "nip05", "picture", "banner", "lud16", "lud06", "username",
      "display_name", "website">>

FieldNames == {FieldOrder[i] : i \in 1..Len(FieldOrder)}

\* str | None
NoStr == [some |-> FALSE, v |-> <<>>]
SomeStr(x) == [some |-> TRUE, v |-> x]

\* Metadata()
EmptyMetadata == [f \in FieldNames |-> NoStr]

\* metadata_to_dict(): the fields that are set
MetadataToDict(fields) == [f \in {g \in FieldNames : fields[g].some} |-> fields[f].v]

\* set_metadata(dict)
SetMetadata(fields, dict) ==
    [f \in FieldNames |-> IF f \in DOMAIN dict THEN SomeStr(dict[f]) ELSE fields[f]]

\* json.dumps of the dict: its members, in field order
JsonDumps(dict) ==
    LET present(f) == f \in DOMAIN dict
        keys == SelectSeq(FieldOrder, present)
    IN  [i \in 1..Len(keys) |-> [key |-> keys[i], val |-> dict[keys[i]]]]

\* json.loads of an event's content: key -> value, the last occurrence winning
ContentLoads(content) ==
    [k \in {content[i].key : i \in 1..Len(content)} |->
        content[Max({i \in 1..Len(content) : content[i].key = k})].val]

\* a content that also carries the update timestamp
MetadataContentStamped(fields, created_at) ==
    JsonDumps(MetadataToDict(fields)) \o <<[key |-> "created_at", val |-> <<created_at>>]>>

\* metadata.update(): the content of the metadata, line 144
MetadataContent(fields, created_at) == JsonDumps(MetadataToDict(fields))

NoEvent == [has |-> FALSE, content |-> <<>>, created_at |-> 0]
Event(content, created_at) == [has |-> TRUE, content |-> content, created_at |-> created_at]

\* get_metadata_for_pubkey, lines 84-98: Metadata.from_event of the relay's
\* latest metadata event, or None
get_metadata_for_pubkey(r) ==
    [found |-> r.has,
     fields |-> IF r.has
                THEN SetMetadata(EmptyMetadata,
                                 [k \in DOMAIN ContentLoads(r.content) \cap FieldNames |->
                                     ContentLoads(r.content)[k]])
                ELSE EmptyMetadata,
     content |-> r.content]

\* `if name:` and the like: None and the empty string leave the field alone
ArgTruthy(a) == a.some /\ a.v # <<>>

\* the overlay on a fresh Metadata(), the previous metadata not copied in
OverlayFresh(previous_metadata, args) ==
    [f \in FieldNames |-> IF ArgTruthy(args[f]) THEN args[f] ELSE NoStr]

\* lines 120-142: the previous fields, overlaid with the arguments
Overlay(previous_metadata, args) ==
    LET base == IF previous_metadata.found
                THEN SetMetadata(EmptyMetadata, MetadataToDict(previous_metadata.fields))
                ELSE EmptyMetadata
    IN  [f \in FieldNames |-> IF ArgTruthy(args[f]) THEN args[f] ELSE base[f]]

\* update_metadata, lines 119-149: whether an event is sent, and the event
update_metadata(args, r, now) ==
    LET previous_metadata == get_metadata_for_pubkey(r)
        metadata == Overlay(previous_metadata, args)
        content == MetadataContent(metadata, now)
        skip == previous_metadata.found /\ previous_metadata.content = content
    IN  [published |-> ~skip,
         event |-> Event(content, now),
         fields |-> metadata,
         previous |-> previous_metadata]

-----------------------------------------------------------------------------
(* Sending a direct message and awaiting the response *)

NoResult == [kind |-> "none", ref |-> 0, content |-> <<>>]

\* a DecryptedMessage replying to the event `ref`
Reply(ref, content) == [kind |-> "reply", ref |-> ref, content |-> content]

\* the failure of a wait that saw no reply
NoResponse == [kind |-> "no_response", ref |-> 0, content |-> <<>>]

\* the call forgetting to hand the timeout on
SendReceiveWithoutTimeout(recipient_pubkey, message, timeout, event_ref) ==
    [message |-> message, recipient_pubkey |-> recipient_pubkey, timeout |-> NoInt,
     event_ref |-> event_ref]

\* send_direct_message_and_receive_response, lines 160-167: the arguments
\* handed to EventRelay.send_receive_message, whose result is returned as is
send_direct_message_and_receive_response(recipient_pubkey, message, timeout, event_ref) ==
    [message |-> message, recipient_pubkey |-> recipient_pubkey,
     timeout |-> SomeInt(timeout), event_ref |-> event_ref]

NoSend == [message |-> <<>>, recipient_pubkey |-> "", timeout |-> NoInt, event_ref |-> NoInt]

SendIdle ==
    /\ sendPc = "idle"
    /\ sendCall = NoSend
    /\ elapsed = 0
    /\ inbox = {}
    /\ sendResult = NoResult
    /\ nSent = 0

\* the replies in the inbox that refer to the event just sent
Correlated == {m \in inbox : m.ref = nSent}

\* EventRelay.send_receive_message begins: the message is sent as event nSent'
SendAndAwait ==
    /\ sendPc = "idle"
    /\ nSent < MaxSends
    /\ \E message \in {<<>>, <<"ping">>}, timeout \in 1..MaxTimeout,
          event_ref \in {NoInt, SomeInt(0)} :
           sendCall' = send_direct_message_and_receive_response("pk1", message, timeout,
                                                                event_ref)
    /\ nSent' = nSent + 1
    /\ elapsed' = 0
    /\ sendResult' = NoResult
    /\ sendPc' = "waiting"
    /\ UNCHANGED <<inbox, routerVars, profileVars, listenVars,
                   relayVars, raceVars>>

\* the relay delivers a direct message: a reply to the event awaited or to an
\* earlier one, its content empty or not
RelayDelivers ==
    /\ sendPc = "waiting"
    /\ \E ref \in 1..nSent, content \in {<<>>, <<"pong">>} :
           inbox' = inbox \cup {Reply(ref, content)}
    /\ UNCHANGED <<sendPc, sendCall, elapsed, sendResult, nSent, routerVars, profileVars,
                   listenVars,
                   relayVars, raceVars>>

\* a unit of time passes while the call waits
TimePasses ==
    /\ sendPc = "waiting"
    /\ sendCall.timeout.some => elapsed < sendCall.timeout.v
    /\ elapsed < MaxTimeout
    /\ elapsed' = elapsed + 1
    /\ UNCHANGED <<sendPc, sendCall, inbox, sendResult, nSent, routerVars, profileVars,
                   listenVars,
                   relayVars, raceVars>>

\* the wait ends with a correlated reply, which the call returns
ReturnReply ==
    /\ sendPc = "waiting"
    /\ \E m \in Correlated : sendResult' = m
    /\ sendPc' = "returned"
    /\ UNCHANGED <<sendCall, elapsed, inbox, nSent, routerVars, profileVars, listenVars,
                   relayVars, raceVars>>

\* the timeout elapses with no correlated reply: the call fails
TimeoutFails ==
    /\ sendPc = "waiting"
    /\ sendCall.timeout.some
    /\ elapsed >= sendCall.timeout.v
    /\ Correlated = {}
    /\ sendResult' = NoResponse
    /\ sendPc' = "failed"
    /\ UNCHANGED <<sendCall, elapsed, inbox, nSent, routerVars, profileVars, listenVars,
                   relayVars, raceVars>>

\* the caller, answered, is free to call again
CallerContinues ==
    /\ sendPc \in {"returned", "failed"}
    /\ nSent < MaxSends
    /\ sendPc' = "idle"
    /\ UNCHANGED <<sendCall, elapsed, inbox, sendResult, nSent, routerVars, profileVars,
                   listenVars,
                   relayVars, raceVars>>

-----------------------------------------------------------------------------
(* The listener operations *)

\* Filters(authors=..., kinds=[...], since=timestamp or get_timestamp(), limit=10)
Filters(authors, kind, timestamp, now, tags, pubkey_refs) ==
    [authors |-> authors, kinds |-> <<kind>>,
     since |-> IF timestamp.some /\ timestamp.v # 0 THEN timestamp.v ELSE now,
     limit |-> 10, tags |-> tags, pubkey_refs |-> pubkey_refs]

\* a listening loop of the event relay (event_listener, direct_message_listener):
\* where it runs, what it listens for, how many callbacks it has made
Listener(ctx, filters) == [ctx |-> ctx, filters |-> filters, callbacks |-> 0]

\* note_listener, lines 186-195: the filters, then a started thread that
\* runs messenger.event_listener(filters, callback)
note_listener(pubkeys, tags, timeout, timestamp, close_after_first_message, now) ==
    Listener("thread", Filters(pubkeys, "TEXT_NOTE", timestamp, now, tags, <<>>))

\* direct_message_listener, lines 208-213: the filters, then a call of
\* messenger.direct_message_listener(filters, callback) by the caller itself
direct_message_listener(recipient_pubkey, timeout, timestamp, close_after_first_message, now) ==
    Listener("caller",
             Filters(recipient_pubkey, "ENCRYPTED_DIRECT_MESSAGE", timestamp, now, <<>>,
                     <<"self">>))

\* what the caller asked of a listener when starting it, when it started, and
\* whether a callback was made after the stop condition asked for was met
Asked(timeout, close_after_first_message, now) ==
    [timeout |-> timeout, close_after_first_message |-> close_after_first_message,
     started |-> now, called_after_stop |-> FALSE]

\* the stop condition the caller asked for is met: a first message was
\* handled and close_after_first_message was set, or a non-zero timeout is over
StopConditionMet(a, l, now) ==
    \/ a.close_after_first_message /\ l.callbacks >= 1
    \/ a.timeout # 0 /\ now >= a.started + a.timeout

ListenIdle ==
    /\ callerPc = "ready"
    /\ listeners = <<>>
    /\ callerSteps = 0
    /\ asked = <<>>

Authors == {<<>>, <<"pk1">>}
Timestamps == {NoInt, SomeInt(5)}

\* the caller starts a note listener and goes on
NoteListener ==
    /\ callerPc = "ready"
    /\ Len(listeners) < MaxListeners
    /\ \E pubkeys \in Authors, timeout \in {0, 1}, timestamp \in Timestamps,
          close_after_first_message \in BOOLEAN :
           /\ listeners' = Append(listeners,
                                  note_listener(pubkeys, <<"t">>, timeout, timestamp,
                                                close_after_first_message, clock))
           /\ asked' = Append(asked, Asked(timeout, close_after_first_message, clock))
    /\ UNCHANGED <<callerPc, callerSteps, routerVars, profileVars, sendVars,
                   relayVars, raceVars>>

\* the caller calls direct_message_listener, and is inside the event relay's
\* listening loop from then on
DirectMessageListener ==
    /\ callerPc = "ready"
    /\ Len(listeners) < MaxListeners
    /\ \E recipient_pubkey \in Authors, timeout \in {0, 1}, timestamp \in Timestamps,
          close_after_first_message \in BOOLEAN :
           /\ listeners' = Append(listeners,
                                  direct_message_listener(recipient_pubkey, timeout,
                                                          timestamp,
                                                          close_after_first_message, clock))
           /\ asked' = Append(asked, Asked(timeout, close_after_first_message, clock))
    /\ callerPc' = "listening"
    /\ UNCHANGED <<callerSteps, routerVars, profileVars, sendVars,
                   relayVars, raceVars>>

\* the relay delivers a matching event to a listener, which calls its callback
ListenerCallback ==
    /\ \E i \in 1..Len(listeners) :
           /\ listeners[i].callbacks < MaxEvents
           /\ listeners' = [listeners EXCEPT ![i].callbacks = @ + 1]
           /\ asked' = [asked EXCEPT ![i].called_after_stop =
                            @ \/ StopConditionMet(asked[i], listeners[i], clock)]
    /\ UNCHANGED <<callerPc, callerSteps, routerVars, profileVars, sendVars,
                   relayVars, raceVars>>

\* a second passes while the listeners listen
ListenTimePasses ==
    /\ clock < MaxTimeout
    /\ clock' = clock + 1
    /\ UNCHANGED <<relay, publishes, upd, nUpd, routerVars, sendVars, listenVars,
                   relayVars, raceVars>>

\* the caller, in control, does other work
CallerWorks ==
    /\ callerPc = "ready"
    /\ callerSteps < MaxSteps
    /\ callerSteps' = callerSteps + 1
    /\ UNCHANGED <<callerPc, listeners, asked, routerVars, profileVars, sendVars,
                   relayVars, raceVars>>

-----------------------------------------------------------------------------
(* The relay list and the relay sessions of the facade *)

RelayUrls == {"wss://r1", "wss://r2", "wss://r3"}

\* EventRelay(relay, private_key): a session with the one relay it is given
EventRelay(url) == [relay |-> url]

\* the session is built on the last relay of the list
MessengerLast(rs) == EventRelay(rs[Len(rs)])

\* messenger, lines 50-52: EventRelay(self.relays[0], self.private_key)
messenger(rs) == EventRelay(rs[1])

\* one use of self.messenger.<method>: the session opened for `op`, and
\* whether its relay answered; an unreachable relay makes the method raise
Contact(op, rs, up) ==
    [op |-> op, relay |-> messenger(rs).relay, ok |-> messenger(rs).relay \in up]

RelaysIdle ==
    /\ relays = <<"wss://r1">>
    /\ reachable = {"wss://r1"}
    /\ contacts = <<>>
    /\ nOps = 0

RaceIdle ==
    /\ procs = <<>>
    /\ writes = [t \in {} |-> <<>>]

-----------------------------------------------------------------------------
(* Profile updates against the primary relay *)

ArgValues == {NoStr, SomeStr(<<>>), SomeStr(<<"X">>), SomeStr(<<"Y">>)}

\* the arguments of a call: name and about vary, the others are left out
UpdateArgs(name, about) ==
    [f \in FieldNames |-> IF f = "name" THEN name ELSE IF f = "about" THEN about ELSE NoStr]

\* what the relay may hold at the start: nothing, a profile this client
\* wrote, or one written elsewhere with its members in another order
InitialEvents ==
    {NoEvent,
     Event(<<[key |-> "name", val |-> <<"X">>]>>, 0),
     Event(<<[key |-> "name", val |-> <<"Y">>], [key |-> "lud16", val |-> <<"L">>]>>, 0),
     Event(<<[key |-> "about", val |-> <<"Y">>], [key |-> "name", val |-> <<"X">>]>>, 0)}

NoUpdate ==
    [called |-> FALSE, args |-> EmptyMetadata, published |-> FALSE,
     previous |-> get_metadata_for_pubkey(NoEvent), fields |-> EmptyMetadata,
     content |-> <<>>, sent |-> 0]

ProfileIdle ==
    /\ relay = NoEvent
    /\ publishes = 0
    /\ upd = <<NoUpdate, NoUpdate>>
    /\ clock = 0
    /\ nUpd = 0

RouterIdle ==
    /\ pc = "ready"
    /\ call = [ver |-> "v1"]
    /\ outcome = [raised |-> FALSE]
    /\ CHAT_HISTORY = [t \in {} |-> <<>>]
    /\ issued = [t \in {} |-> <<>>]
    /\ prompt = <<>>
    /\ nCalls = 0

InitProfile ==
    /\ relay \in InitialEvents
    /\ publishes = 0
    /\ upd = <<NoUpdate, NoUpdate>>
    /\ clock = 1
    /\ nUpd = 0
    /\ RouterIdle
    /\ SendIdle
    /\ ListenIdle
    /\ RelaysIdle
    /\ RaceIdle

\* a call of update_metadata at time `now`: the fetch, the overlay, the
\* comparison and the send
UpdateMetadata ==
    /\ nUpd < MaxUpdates
    /\ \E name \in ArgValues, about \in ArgValues, now \in {clock, clock + 1} :
           LET u == update_metadata(UpdateArgs(name, about), relay, now)
           IN  /\ relay' = IF u.published THEN u.event ELSE relay
               /\ publishes' = IF u.published THEN publishes + 1 ELSE publishes
               /\ upd' = <<upd[2],
                           [called |-> TRUE, args |-> UpdateArgs(name, about),
                            published |-> u.published, previous |-> u.previous,
                            fields |-> u.fields, content |-> u.event.content,
                            sent |-> publishes']>>
               /\ clock' = now
    /\ nUpd' = nUpd + 1
    /\ UNCHANGED <<routerVars, sendVars, listenVars,
                   relayVars, raceVars>>

NextProfile == UpdateMetadata

SpecProfile == InitProfile /\ [][NextProfile]_vars

InitSend ==
    /\ SendIdle
    /\ RouterIdle
    /\ ProfileIdle
    /\ ListenIdle
    /\ RelaysIdle
    /\ RaceIdle

NextSend ==
    SendAndAwait \/ RelayDelivers \/ TimePasses \/ ReturnReply \/ TimeoutFails
    \/ CallerContinues

\* time passes, and a call that can return or fail does so
SpecSend ==
    /\ InitSend
    /\ [][NextSend]_vars
    /\ WF_vars(TimePasses)
    /\ WF_vars(ReturnReply)
    /\ WF_vars(TimeoutFails)

InitListen ==
    /\ ListenIdle
    /\ RelaysIdle
    /\ RaceIdle
    /\ RouterIdle
    /\ ProfileIdle
    /\ SendIdle

NextListen ==
    \/ NoteListener
    \/ DirectMessageListener
    \/ ListenerCallback
    \/ CallerWorks
    \/ ListenTimePasses

SpecListen == InitListen /\ [][NextListen]_vars

-----------------------------------------------------------------------------
(* Inputs of the router *)

tr == <<"t", "r">>
Tr == <<"T", "r">>
su == <<"s", "u">>

CardNames == {Tr, su}
UsedNames == {tr, Tr, su}
Prices == {NoInt, SomeInt(0), SomeInt(30), SomeInt(100)}
BasePrices == {NoInt, SomeInt(50)}

SeqsUpTo(S, n) == UNION {[1..k -> S] : k \in 0..n}

PricedCards ==
    {AgentCard(sk, b) :
        sk \in SeqsUpTo({Skill(n, p) : n \in CardNames, p \in Prices}, MaxSkills),
        b \in BasePrices}

FewCards ==
    {AgentCard(<<>>, NoInt),
     AgentCard(<<Skill(Tr, SomeInt(100)), Skill(su, SomeInt(0))>>, SomeInt(50)),
     AgentCard(<<Skill(<<"s">>, SomeInt(30)), Skill(su, NoInt)>>, NoInt)}

\* the completion capability's behaviours
LlmRaises == [kind |-> "raise", text |-> <<>>]
LlmNonString == [kind |-> "nonstr", text |-> <<>>]
LlmText(text) == [kind |-> "text", text |-> text]

CanHandleValues ==
    {JNull, JBool(TRUE), JBool(FALSE), JStr(<<"f", "a", "l", "s", "e">>),
     JStr(<<"Y", "e", "s">>), JStr(<<"m">>), JStr(<<>>), JNum(0), JNum(1), JNum(2),
     JList(<<>>)}

UserMessageValues == {JNull, JStr(<<>>), JStr(<<"ok">>), JNum(7)}

SkillsUsedValues ==
    {JNull, JList(<<>>), JList(<<EStr(tr)>>), JList(<<ENum>>),
     JList(<<EStr(Tr), ENum>>), JStr(su), JNum(0), JNum(3), JBool(TRUE)}

\* the members of a JSON object: each of the three fields absent or present
OptMember(key, values) == {<<>>} \cup {<<Member(key, v)>> : v \in values}

ObjectMembers(chs, ums, sus) ==
    {c \o u \o s : c \in OptMember("can_handle", chs),
                   u \in OptMember("user_message", ums),
                   s \in OptMember("skills_used", sus)}

\* one JSON object, bare or wrapped in explanatory prose
ObjectTexts(members) ==
    {<<LBrace>> \o m \o <<RBrace>> : m \in members}
    \cup {<<Prose, LBrace>> \o m \o <<RBrace, Prose>> : m \in members}

MalformedTexts ==
    {<<>>, <<Prose>>, <<LBrace>>, <<RBrace>>, <<RBrace, Prose, LBrace>>,
     <<LBrace, Prose, RBrace>>, <<LBrace, LBrace, RBrace>>,
     <<LBrace, Member("can_handle", JBool(TRUE)), RBrace, Prose, LBrace, RBrace>>,
     <<Prose, LBrace, Member("can_handle", JBool(TRUE))>>}

OtherObjectTexts ==
    {<<LBrace, Member("other", JNum(1)), RBrace>>,
     <<LBrace, Member("can_handle", JBool(FALSE)), Member("can_handle", JBool(TRUE)),
       RBrace>>}

\* any type in any field, a few cards
TypedLlms ==
    {LlmRaises, LlmNonString}
    \cup {LlmText(x) : x \in MalformedTexts \cup OtherObjectTexts}
    \cup {LlmText(x) : x \in ObjectTexts(ObjectMembers(CanHandleValues, UserMessageValues,
                                                      SkillsUsedValues))}

\* well-typed answers naming up to MaxUsed skills, every card
NamedLlms ==
    {LlmText(<<LBrace, Member("can_handle", JBool(c)), Member("user_message", JStr(<<"ok">>)),
               Member("skills_used", JList(names)), RBrace>>) :
        c \in BOOLEAN, names \in SeqsUpTo({EStr(n) : n \in UsedNames}, MaxUsed)}

Versions == {"v1", "v2"}

Call(ver, request, card, llm, thread_id) ==
    [ver |-> ver, request |-> request, card |-> card, llm |-> llm, thread |-> thread_id]

\* the calls of one decision: any type in any field with a few cards, or a
\* well-typed answer with every card
DecisionCall(c) ==
    \/ \E v \in Versions, card \in FewCards, l \in TypedLlms :
            c = Call(v, <<"translate this">>, card, l, NoThread)
    \/ \E v \in Versions, card \in PricedCards, l \in NamedLlms :
            c = Call(v, <<"translate this">>, card, l, NoThread)

NoOutcome == Returned(JNull, 0, JNull, JNull)
EmptyHistory == [t \in {} |-> <<>>]
ThreadIds == {"", "t1", "t2"}

-----------------------------------------------------------------------------
(* One routing decision: the arguments are drawn, then the call is made *)

Init ==
    /\ pc = "ready"
    /\ DecisionCall(call)
    /\ outcome = NoOutcome
    /\ CHAT_HISTORY = EmptyHistory
    /\ issued = [t \in ThreadIds |-> <<>>]
    /\ prompt = <<>>
    /\ nCalls = 0
    /\ ProfileIdle
    /\ SendIdle
    /\ ListenIdle
    /\ RelaysIdle
    /\ RaceIdle

\* the whole of a call of the router with the arguments c
DoCallWith(c) ==
    LET r == Route(c.ver, c.request, c.card, c.llm, c.thread, CHAT_HISTORY)
    IN  /\ outcome' = r.ret
        /\ CHAT_HISTORY' = r.hist
        /\ prompt' = r.prompt
        /\ issued' = IF c.thread.some
                     THEN [issued EXCEPT ![c.thread.id] = Append(@, c.request)]
                     ELSE issued
        /\ nCalls' = nCalls + 1

DoCall(ver) == call.ver = ver /\ DoCallWith(call)

CallAgentRouter ==
    /\ pc = "ready"
    /\ DoCall("v1")
    /\ pc' = "done"
    /\ UNCHANGED <<call, profileVars, sendVars, listenVars,
                   relayVars, raceVars>>

CallAgentRouterV2 ==
    /\ pc = "ready"
    /\ DoCall("v2")
    /\ pc' = "done"
    /\ UNCHANGED <<call, profileVars, sendVars, listenVars,
                   relayVars, raceVars>>

Next == CallAgentRouter \/ CallAgentRouterV2

Spec == Init /\ [][Next]_vars

-----------------------------------------------------------------------------
(* A conversation: sequentially issued router calls, each on a thread or none *)

Requests == {<<"hello">>, <<"please", "translate">>, <<>>}

ThreadArgs == {NoThread} \cup {Thread(t) : t \in ThreadIds}

ThreadCard == AgentCard(<<Skill(Tr, SomeInt(100))>>, SomeInt(50))

ThreadLlms ==
    {LlmRaises, LlmText(<<Prose>>),
     LlmText(<<LBrace, Member("can_handle", JBool(TRUE)), RBrace>>)}

NoCall == Call("v1", <<>>, ThreadCard, LlmRaises, NoThread)

InitThread ==
    /\ pc = "ready"
    /\ call = NoCall
    /\ outcome = NoOutcome
    /\ CHAT_HISTORY = EmptyHistory
    /\ issued = [t \in ThreadIds |-> <<>>]
    /\ prompt = <<>>
    /\ nCalls = 0
    /\ ProfileIdle
    /\ SendIdle
    /\ ListenIdle
    /\ RelaysIdle
    /\ RaceIdle

RouteOnThread ==
    /\ nCalls < MaxCalls
    /\ \E r \in Requests, th \in ThreadArgs, l \in ThreadLlms :
           /\ call' = Call("v1", r, ThreadCard, l, th)
           /\ DoCallWith(call')
    /\ UNCHANGED <<pc, profileVars, sendVars, listenVars,
                   relayVars, raceVars>>

RouteOnThreadV2 ==
    /\ nCalls < MaxCalls
    /\ \E r \in Requests, th \in ThreadArgs, l \in ThreadLlms :
           /\ call' = Call("v2", r, ThreadCard, l, th)
           /\ DoCallWith(call')
    /\ UNCHANGED <<pc, profileVars, sendVars, listenVars,
                   relayVars, raceVars>>

NextThread == RouteOnThread \/ RouteOnThreadV2

SpecThread == InitThread /\ [][NextThread]_vars

-----------------------------------------------------------------------------
(* The facade operations and the relays they address *)

\* the client is made with a list of up to MaxRelays different URLs
InitRelays ==
    /\ relays \in SeqsUpTo(RelayUrls, MaxRelays)
    /\ \A i, j \in 1..Len(relays) : i # j => relays[i] # relays[j]
    /\ reachable = RelayUrls
    /\ contacts = <<>>
    /\ nOps = 0
    /\ RouterIdle
    /\ ProfileIdle
    /\ SendIdle
    /\ callerPc = "ready"
    /\ listeners = <<>>
    /\ callerSteps = 0
    /\ asked = <<>>
    /\ RaceIdle

\* an operation that uses self.messenger once: with an empty relay list
\* self.relays[0] raises IndexError and no relay is addressed
FacadeOp(op) ==
    /\ nOps < MaxOps
    /\ nOps' = nOps + 1
    /\ contacts' = IF relays = <<>>
                   THEN contacts
                   ELSE Append(contacts, Contact(op, relays, reachable))
    /\ UNCHANGED <<relays, reachable>>

\* read_posts_by_tag, lines 77-80
FacadeReadPostsByTag ==
    /\ FacadeOp("get_events")
    /\ UNCHANGED <<routerVars, profileVars, sendVars, listenVars, raceVars>>

\* get_metadata_for_pubkey, lines 92-98
FacadeGetMetadataForPubkey ==
    /\ FacadeOp("get_event")
    /\ UNCHANGED <<routerVars, profileVars, sendVars, listenVars, raceVars>>

\* update_metadata, lines 119-149: the fetch, and the send when the content
\* has changed; a fetch that raises ends the call
FacadeUpdateMetadata ==
    /\ nOps < MaxOps
    /\ nOps' = nOps + 1
    /\ \E name \in {NoStr, SomeStr(<<"X">>)} :
           LET u == update_metadata(UpdateArgs(name, NoStr), relay, clock)
               sent == relays # <<>> /\ Contact("get_event", relays, reachable).ok /\ u.published
           IN  /\ contacts' = IF relays = <<>>
                              THEN contacts
                              ELSE IF sent
                              THEN contacts \o <<Contact("get_event", relays, reachable),
                                                 Contact("send_event", relays, reachable)>>
                              ELSE Append(contacts, Contact("get_event", relays, reachable))
               /\ relay' = IF sent THEN u.event ELSE relay
               /\ publishes' = IF sent THEN publishes + 1 ELSE publishes
    /\ UNCHANGED <<relays, reachable, upd, clock, nUpd, routerVars, sendVars, listenVars,
                   raceVars>>

\* send_direct_message, line 158
FacadeSendDirectMessage ==
    /\ FacadeOp("send_message")
    /\ UNCHANGED <<routerVars, profileVars, sendVars, listenVars, raceVars>>

\* send_direct_message_and_receive_response, line 167
FacadeSendAndReceive ==
    /\ FacadeOp("send_receive_message")
    /\ UNCHANGED <<routerVars, profileVars, sendVars, listenVars, raceVars>>

\* a listener operation has started `l` when its relay answered
Listening(l, timeout, close_after_first_message) ==
    IF relays # <<>> /\ messenger(relays).relay \in reachable
    THEN /\ listeners' = Append(listeners, l)
         /\ asked' = Append(asked, Asked(timeout, close_after_first_message, clock))
    ELSE UNCHANGED <<listeners, asked>>

\* note_listener, lines 186-195
FacadeNoteListener ==
    /\ FacadeOp("event_listener")
    /\ Listening(note_listener(<<>>, <<"t">>, 0, NoInt, FALSE, clock), 0, FALSE)
    /\ UNCHANGED <<callerPc, callerSteps, routerVars, profileVars, sendVars, raceVars>>

\* direct_message_listener, lines 208-213
FacadeDirectMessageListener ==
    /\ FacadeOp("direct_message_listener")
    /\ Listening(direct_message_listener(<<>>, 0, NoInt, FALSE, clock), 0, FALSE)
    /\ UNCHANGED <<callerPc, callerSteps, routerVars, profileVars, sendVars, raceVars>>

\* a relay stops answering
RelayFails ==
    /\ \E url \in reachable : reachable' = reachable \ {url}
    /\ UNCHANGED <<relays, contacts, nOps, routerVars, profileVars, sendVars, listenVars,
                   raceVars>>

NextRelays ==
    \/ FacadeReadPostsByTag
    \/ FacadeGetMetadataForPubkey
    \/ FacadeUpdateMetadata
    \/ FacadeSendDirectMessage
    \/ FacadeSendAndReceive
    \/ FacadeNoteListener
    \/ FacadeDirectMessageListener
    \/ RelayFails

SpecRelays == InitRelays /\ [][NextRelays]_vars

-----------------------------------------------------------------------------
(* Router calls running at the same time *)

\* line 114: `thread_id and thread_id in CHAT_HISTORY`
HistoryKnown(thread_id, hist) == ThreadTruthy(thread_id) /\ thread_id.id \in DOMAIN hist

\* a store that keeps what another call has stored in the meantime, putting
\* the message after it
HistoryWriteMerge(message, thread_id, hist) ==
    IF ThreadTruthy(thread_id)
    THEN [t \in (DOMAIN hist) \cup {thread_id.id} |->
            IF t # thread_id.id THEN hist[t]
            ELSE IF t \in DOMAIN hist
                    /\ (Len(hist[t]) > Len(message)
                                         \/ SubSeq(message, 1, Len(hist[t])) # hist[t])
                 THEN hist[t] \o Blank \o message
                 ELSE message]
    ELSE hist

\* lines 116-117: `if thread_id: CHAT_HISTORY[thread_id] = user_message`
HistoryWrite(message, thread_id, hist) ==
    IF ThreadTruthy(thread_id)
    THEN [t \in (DOMAIN hist) \cup {thread_id.id} |->
            IF t = thread_id.id THEN message ELSE hist[t]]
    ELSE hist

\* a thread of the process that may call agent_router: where it is in the
\* call, the arguments, the local user_message, what line 115 read
IdleProc ==
    [pc |-> "idle", request |-> <<>>, thread |-> NoThread, user_message |-> <<>>,
     observed |-> NoStr]

\* the arguments of the calls: two requests, no thread id or one of two
RaceRequests == {<<"hello">>, <<"please", "translate">>}
RaceThreads == {NoThread, Thread("t1"), Thread("t2")}
RaceLlms ==
    {LlmText(<<Prose>>), LlmText(<<LBrace, Member("can_handle", JBool(TRUE)), RBrace>>)}

InitRace ==
    /\ procs = [p \in 1..MaxProcs |-> IdleProc]
    /\ writes = [t \in ThreadIds |-> <<>>]
    /\ pc = "ready"
    /\ call = NoCall
    /\ outcome = NoOutcome
    /\ CHAT_HISTORY = EmptyHistory
    /\ issued = [t \in ThreadIds |-> <<>>]
    /\ prompt = <<>>
    /\ nCalls = 0
    /\ ProfileIdle
    /\ SendIdle
    /\ callerPc = "ready"
    /\ listeners = <<>>
    /\ callerSteps = 0
    /\ asked = <<>>
    /\ RelaysIdle

\* a thread calls agent_router(user_message, agent_card, llm_callable, thread_id)
RaceCall(p) ==
    /\ procs[p].pc = "idle"
    /\ nCalls < MaxCalls
    /\ \E r \in RaceRequests, th \in RaceThreads :
           procs' = [procs EXCEPT ![p] = [pc |-> "test", request |-> r, thread |-> th,
                                          user_message |-> r, observed |-> NoStr]]
    /\ nCalls' = nCalls + 1
    /\ UNCHANGED <<pc, call, outcome, CHAT_HISTORY, issued, prompt, writes, profileVars,
                   sendVars, listenVars, relayVars>>

\* line 114: the test of the `if`
RaceTest(p) ==
    /\ procs[p].pc = "test"
    /\ procs' = [procs EXCEPT ![p].pc = IF HistoryKnown(procs[p].thread, CHAT_HISTORY)
                                        THEN "read" ELSE "write"]
    /\ UNCHANGED <<routerVars, writes, profileVars, sendVars, listenVars, relayVars>>

\* line 115: CHAT_HISTORY[thread_id] is read and put before the request
RaceRead(p) ==
    /\ procs[p].pc = "read"
    /\ procs' = [procs EXCEPT
                   ![p].pc = "write",
                   ![p].observed = SomeStr(CHAT_HISTORY[procs[p].thread.id]),
                   ![p].user_message = HistoryMessage(procs[p].user_message,
                                                      procs[p].thread, CHAT_HISTORY)]
    /\ UNCHANGED <<routerVars, writes, profileVars, sendVars, listenVars, relayVars>>

\* lines 116-200: the store, then the prompt, the model's answer and the
\* decision given back, none of which reads CHAT_HISTORY again
RaceWrite(p) ==
    /\ procs[p].pc = "write"
    /\ procs' = [procs EXCEPT ![p] = IdleProc]
    /\ CHAT_HISTORY' = HistoryWrite(procs[p].user_message, procs[p].thread, CHAT_HISTORY)
    /\ writes' = IF ThreadTruthy(procs[p].thread)
                 THEN [writes EXCEPT ![procs[p].thread.id] =
                          Append(@, [proc |-> p, observed |-> procs[p].observed,
                                     request |-> procs[p].request,
                                     value |-> procs[p].user_message])]
                 ELSE writes
    /\ prompt' = BuildPrompt(procs[p].user_message, ThreadCard)
    /\ \E l \in RaceLlms : outcome' = TryRoute(ThreadCard, l)
    /\ UNCHANGED <<pc, call, issued, nCalls, profileVars, sendVars, listenVars, relayVars>>

NextRace ==
    \E p \in 1..MaxProcs :
        \/ RaceCall(p)
        \/ RaceTest(p)
        \/ RaceRead(p)
        \/ RaceWrite(p)

SpecRace == InitRace /\ [][NextRace]_vars

-----------------------------------------------------------------------------
(* Properties of one routing decision *)

Done == pc = "done"

\* the completion capability's answer, cut to its braces, decodes
Decodes(llm) == llm.kind = "text" /\ JsonDecodable(Braced(llm.text))

\* the invocation failed, or its answer does not decode
DecisionFailure(llm) == ~Decodes(llm)

\* C1: the router never raises to its caller: agent_router and agent_router_v2
\* return a decision for every behaviour of the completion capability, and an
\* invocation or decode failure is returned as a negative decision.
C1_NeverRaises ==
    Done =>
        /\ ~outcome.raised
        /\ DecisionFailure(call.llm) => outcome.can_handle = JBool(FALSE)

\* C2: in every returned decision costUnits is 0 whenever canHandle is false.
C2_NoCostUnlessCanHandle ==
    (Done /\ ~outcome.raised /\ ~Truthy(outcome.can_handle)) => outcome.cost = 0

RECURSIVE SeqSum(_)
SeqSum(s) == IF s = <<>> THEN 0 ELSE Head(s) + SeqSum(Tail(s))

\* the skills of the card a name selects: same name up to letter case, price set
PricedMatches(skills, name) ==
    {j \in 1..Len(skills) : Lower(skills[j].name) = Lower(name) /\ skills[j].satoshis.some}

\* per name of skills_used, the price of the first matching priced skill
FirstMatchPrices(skills, names) ==
    [i \in 1..Len(names) |->
        IF PricedMatches(skills, names[i]) = {} THEN 0
        ELSE skills[Min(PricedMatches(skills, names[i]))].satoshis.v]

\* per name of skills_used, the prices of all matching priced skills
AllMatchPrices(skills, names) ==
    [i \in 1..Len(names) |->
        SeqSum([j \in 1..Len(skills) |->
                    IF j \in PricedMatches(skills, names[i]) THEN skills[j].satoshis.v
                    ELSE 0])]

\* P + (basePrice or 0), P contributing only when P > 0
CostOf(P, card) ==
    (IF P > 0 THEN P ELSE 0) + (IF card.satoshis.some THEN card.satoshis.v ELSE 0)

\* a positive decision whose skills_used is a list of names
PositiveNamed ==
    /\ Done
    /\ ~outcome.raised
    /\ Truthy(outcome.can_handle)
    /\ StrListValid(outcome.skills_used)

ReturnedNames == ElementNames(outcome.skills_used)

\* C3 as stated: when canHandle is true, costUnits = P + (basePrice or 0), P
\* the sum over the names of skills_used of the prices of EVERY matching priced
\* skill of the card.
C3_CostSumsEveryMatch ==
    PositiveNamed =>
        outcome.cost = CostOf(SeqSum(AllMatchPrices(call.card.skills, ReturnedNames)),
                              call.card)

\* C3 as amended: when canHandle is true, costUnits = P + (basePrice or 0), P
\* the sum over the names of skills_used (a repeated name counting each time)
\* of the price of the FIRST skill of the card, in card order, whose name
\* matches and whose price is set.
C3_CostSumsFirstMatch ==
    PositiveNamed =>
        outcome.cost = CostOf(SeqSum(FirstMatchPrices(call.card.skills, ReturnedNames)),
                              call.card)

\* a positive decision naming, twice, a skill the card prices twice
C3_Witness ==
    /\ PositiveNamed
    /\ \E i \in 1..Len(ReturnedNames) :
           Cardinality(PricedMatches(call.card.skills, ReturnedNames[i])) >= 2
    /\ \E i, j \in 1..Len(ReturnedNames) : i # j /\ ReturnedNames[i] = ReturnedNames[j]
    /\ outcome.cost > 0

\* the first priced skill whose name is exactly `name`
ExactMatches(skills, name) ==
    {j \in 1..Len(skills) : skills[j].name = name /\ skills[j].satoshis.some}

\* a name of skills_used respelt as the card spells the skill it selects
Respelt(skills, name) ==
    IF PricedMatches(skills, name) = {} THEN name
    ELSE skills[Min(PricedMatches(skills, name))].name

ExactPrices(skills, names) ==
    [i \in 1..Len(names) |->
        IF ExactMatches(skills, Respelt(skills, names[i])) = {} THEN 0
        ELSE skills[Min(ExactMatches(skills, Respelt(skills, names[i])))].satoshis.v]

\* C4: skill-name matching is case-insensitive: the cost of a decision whose
\* skills_used names differ from the card's skill names only in letter case
\* is the cost it would have were the names spelt identically.
C4_CaseInsensitive ==
    PositiveNamed =>
        outcome.cost = CostOf(SeqSum(ExactPrices(call.card.skills, ReturnedNames)),
                              call.card)

\* a positive decision charged for a skill named in another letter case
C4_Witness ==
    /\ PositiveNamed
    /\ \E i \in 1..Len(ReturnedNames) :
           /\ PricedMatches(call.card.skills, ReturnedNames[i]) # {}
           /\ ExactMatches(call.card.skills, ReturnedNames[i]) = {}
           /\ Respelt(call.card.skills, ReturnedNames[i]) # ReturnedNames[i]
    /\ outcome.cost > CostOf(0, call.card)

\* the answer decodes to an object holding none of the three fields
MissingFields(llm) ==
    /\ Decodes(llm)
    /\ DOMAIN JsonLoads(Braced(llm.text))
         \cap {"can_handle", "user_message", "skills_used"} = {}

Negative ==
    /\ ~outcome.raised
    /\ outcome.can_handle = JBool(FALSE)
    /\ outcome.cost = 0
    /\ outcome.skills_used = JList(<<>>)

Diagnostic == outcome.user_message.t = "str" /\ outcome.user_message.s # <<>>

\* C6 as stated: malformed output (no braces, undecodable text between braces,
\* or an object missing the required fields such as {}) yields canHandle=false,
\* costUnits=0, a non-empty diagnostic userMessage and empty skillsUsed.
C6_MalformedIsDiagnosed ==
    (Done /\ call.llm.kind = "text" /\ (~Decodes(call.llm) \/ MissingFields(call.llm)))
        => (Negative /\ Diagnostic)

\* C6 as amended: text that does not decode yields canHandle=false,
\* costUnits=0, a non-empty diagnostic userMessage and empty skillsUsed; an
\* object missing the three fields yields canHandle=false, costUnits=0, empty
\* skillsUsed and an EMPTY userMessage.
C6_MalformedOrDefaults ==
    /\ (Done /\ call.llm.kind = "text" /\ ~Decodes(call.llm)) => (Negative /\ Diagnostic)
    /\ (Done /\ MissingFields(call.llm))
           => (Negative /\ outcome.user_message = JStr(<<>>))

\* the router has answered `{}` wrapped in prose
C6_Witness ==
    /\ Done
    /\ call.llm = LlmText(<<Prose, LBrace, RBrace, Prose>>)
    /\ Negative

-----------------------------------------------------------------------------
(* Properties of a conversation *)

\* r1, r2, ..., rn joined in order by a blank line
RECURSIVE JoinBlank(_)
JoinBlank(reqs) ==
    IF Len(reqs) = 1 THEN reqs[1]
    ELSE JoinBlank(SubSeq(reqs, 1, Len(reqs) - 1)) \o Blank \o reqs[Len(reqs)]

Contains(text, part) ==
    \E i \in 0..(Len(text) - Len(part)) : SubSeq(text, i + 1, i + Len(part)) = part

\* the request-history section of a prompt showing `text`
HistorySection(text) ==
    <<"User Request History: ", "\n", "\n">> \o text
    \o <<"\n", "\n", "Respond with a JSON object">>

\* C5: after sequentially issued calls with the same provided thread id and
\* requests r1..rn, whatever each call's outcome, the stored text of the
\* thread is r1..rn joined in call order by a blank line, and the prompt of
\* the n-th call shows that same text.  (A thread id is provided when it is
\* neither None nor the empty string.)
C5_AccumulatedText ==
    \A t \in ThreadIds \ {""} :
        /\ issued[t] = <<>> => t \notin DOMAIN CHAT_HISTORY
        /\ issued[t] # <<>> =>
              /\ t \in DOMAIN CHAT_HISTORY
              /\ CHAT_HISTORY[t] = JoinBlank(issued[t])
              /\ (nCalls > 0 /\ call.thread = Thread(t))
                    => Contains(prompt, HistorySection(JoinBlank(issued[t])))

\* a third call on thread t1, after a call whose completion failed
C5_Witness ==
    /\ Len(issued["t1"]) = 3
    /\ issued["t1"][1] = <<"hello">>
    /\ issued["t1"][2] = <<"please", "translate">>
    /\ call.thread = Thread("t1")
    /\ outcome = RoutingError
    /\ CHAT_HISTORY["t1"] =
          <<"hello", "\n", "\n", "please", "translate", "\n", "\n">> \o issued["t1"][3]

-----------------------------------------------------------------------------
(* Properties of profile updates *)

LastUpdate == upd[2]
UpdateBefore == upd[1]

\* C7: update_metadata publishes nothing when the content it arrives at is
\* identical to the previously stored metadata content, and publishes exactly
\* once when it differs or nothing was stored; so the second of two successive
\* calls with the same arguments publishes nothing.
C7_IdempotentPublish ==
    LastUpdate.called =>
        /\ LastUpdate.published
              = ~(LastUpdate.previous.found
                  /\ LastUpdate.previous.content = LastUpdate.content)
        /\ publishes = LastUpdate.sent
        /\ LastUpdate.sent
              = (IF UpdateBefore.called THEN UpdateBefore.sent ELSE 0)
                + (IF LastUpdate.published THEN 1 ELSE 0)
        /\ LastUpdate.published => relay.content = LastUpdate.content
        /\ (UpdateBefore.called /\ UpdateBefore.args = LastUpdate.args)
              => ~LastUpdate.published

\* update_metadata(name="X") twice, a second later, on a relay holding no
\* profile: one publish
C7_Witness ==
    /\ UpdateBefore.called
    /\ UpdateBefore.args = UpdateArgs(SomeStr(<<"X">>), NoStr)
    /\ LastUpdate.args = UpdateBefore.args
    /\ ~UpdateBefore.previous.found
    /\ UpdateBefore.published
    /\ ~LastUpdate.published
    /\ publishes = 1
    /\ clock = 2

\* the fields of the metadata event the relay now holds
PublishedFields == get_metadata_for_pubkey(relay).fields

\* C8 as stated: in the metadata update_metadata publishes, every field
\* supplied in the call, for any supplied value including the empty string,
\* has the supplied value, and every field not supplied keeps its previous
\* value.
C8_OverlayEverySupplied ==
    (LastUpdate.called /\ LastUpdate.published) =>
        \A f \in FieldNames :
            /\ LastUpdate.args[f].some => PublishedFields[f] = LastUpdate.args[f]
            /\ ~LastUpdate.args[f].some
                  => PublishedFields[f] = LastUpdate.previous.fields[f]

\* C8 as amended: in the metadata update_metadata publishes, every field
\* supplied with a non-empty value has the supplied value, and every field not
\* supplied, or supplied as the empty string, keeps its previous value.
C8_OverlayNonEmpty ==
    (LastUpdate.called /\ LastUpdate.published) =>
        \A f \in FieldNames :
            /\ ArgTruthy(LastUpdate.args[f]) => PublishedFields[f] = LastUpdate.args[f]
            /\ ~ArgTruthy(LastUpdate.args[f])
                  => PublishedFields[f] = LastUpdate.previous.fields[f]

\* a published update that set one field, was given the empty string for a
\* field the relay held, and supplied nothing for another field it held
C8_Witness ==
    /\ LastUpdate.called
    /\ LastUpdate.published
    /\ \E f \in FieldNames :
           /\ LastUpdate.args[f] = SomeStr(<<>>)
           /\ LastUpdate.previous.fields[f].some
    /\ \E f \in FieldNames :
           /\ ArgTruthy(LastUpdate.args[f])
           /\ LastUpdate.previous.fields[f] # LastUpdate.args[f]
    /\ \E f \in FieldNames :
           /\ ~LastUpdate.args[f].some
           /\ LastUpdate.previous.fields[f].some

-----------------------------------------------------------------------------
(* Properties of send-and-await *)

\* C9: send_direct_message_and_receive_response never blocks forever: a call
\* that waits eventually returns the reply correlated to the sent event or,
\* no correlated reply having come before the timeout elapsed, fails with a
\* no-response condition that is not a reply, even one with empty content.
C9_AwaitCompletes ==
    /\ (sendPc = "waiting") ~> (sendPc \in {"returned", "failed"})
    /\ [](sendPc = "returned" =>
            /\ sendResult.kind = "reply"
            /\ sendResult.ref = nSent
            /\ sendResult \in inbox)
    /\ [](sendPc = "failed" =>
            /\ sendResult.kind = "no_response"
            /\ sendResult # Reply(nSent, <<>>)
            /\ sendCall.timeout.some
            /\ elapsed >= sendCall.timeout.v
            /\ Correlated = {})

\* the call has failed on its timeout, an empty reply to an earlier event
\* lying in the inbox
C9_Witness ==
    /\ sendPc = "failed"
    /\ sendResult = NoResponse
    /\ nSent = 2
    /\ Reply(1, <<>>) \in inbox
    /\ elapsed = sendCall.timeout.v

-----------------------------------------------------------------------------
(* Properties of the listener operations *)

\* C10: both listener operations start the listening work as a background
\* task and return control to the caller without waiting for any event or
\* for the listener to finish: every listener runs in a thread of its own and
\* the caller stays in control.
C10_ListenersInBackground ==
    /\ callerPc = "ready"
    /\ \A i \in 1..Len(listeners) : listeners[i].ctx = "thread"


\* C11: a listener started with close_after_first_message set calls its
\* callback for at most one matching event, a listener started with a non-zero
\* timeout stops when that time is over, and no callback is called once the
\* stop condition a listener was started with is met.
C11_ListenersStop ==
    \A i \in 1..Len(listeners) :
        /\ asked[i].close_after_first_message => listeners[i].callbacks <= 1
        /\ ~asked[i].called_after_stop

-----------------------------------------------------------------------------
(* Properties of the relay list *)

\* C12: every facade operation addresses only the relay at index 0 of the
\* relay list: each relay session opened is with the first URL of the list,
\* also after the primary relay has stopped answering.
C12_PrimaryRelayOnly ==
    \A i \in 1..Len(contacts) : relays # <<>> /\ contacts[i].relay = relays[1]

\* the primary relay has failed an operation, a second relay of the list
\* answers, and a later operation has gone to a relay again
C12_Witness ==
    /\ Len(relays) >= 2
    /\ relays[2] \in reachable
    /\ Len(contacts) >= 2
    /\ ~contacts[1].ok
    /\ contacts[1].op # contacts[2].op

-----------------------------------------------------------------------------
(* Properties of router calls running at the same time *)

\* the text a store is made of: what the call had read, a blank line, and
\* its request; the request alone when it had read nothing
FullValue(w) == IF w.observed.some THEN w.observed.v \o Blank \o w.request ELSE w.request

Last(q) == q[Len(q)]

\* C13: with route calls on one thread id interleaved in any order, the
\* stored text is at every moment the value stored in full by one call, the
\* last one to store: the prior text that call had read, a blank line and its
\* own request.  A thread id never stored under has no entry.
C13_LastWriterWins ==
    \A t \in ThreadIds :
        IF writes[t] = <<>>
        THEN t \notin DOMAIN CHAT_HISTORY
        ELSE /\ t \in DOMAIN CHAT_HISTORY
             /\ CHAT_HISTORY[t] = Last(writes[t]).value
             /\ CHAT_HISTORY[t] = FullValue(Last(writes[t]))
             /\ \A i \in 1..Len(writes[t]) :
                    writes[t][i].observed.some =>
                        \E j \in 1..(i - 1) :
                            writes[t][i].observed.v = FullValue(writes[t][j])

\* two calls on thread t1 have both passed line 114 before either stored:
\* the second store has replaced the first, whose request is lost
C13_Witness ==
    /\ Len(writes["t1"]) = 2
    /\ writes["t1"][1].proc # writes["t1"][2].proc
    /\ ~writes["t1"][1].observed.some
    /\ ~writes["t1"][2].observed.some
    /\ writes["t1"][1].request # writes["t1"][2].request
    /\ CHAT_HISTORY["t1"] = writes["t1"][2].request
    /\ \A p \in 1..MaxProcs : procs[p].pc = "idle"

-----------------------------------------------------------------------------
(* The frame of a route call *)

\* C14: a route call changes at most the conversation-memory entry of its
\* own thread id: the entry of every other thread id stays as it was, a call
\* without a thread id leaves the whole memory as it was, an entry appears
\* only under the thread id of the call, and no entry is ever removed.
C14_OnlyOwnThread ==
    [][/\ DOMAIN CHAT_HISTORY \subseteq DOMAIN CHAT_HISTORY'
       /\ \A t \in DOMAIN CHAT_HISTORY :
              (call'.thread.some /\ t = call'.thread.id) \/ CHAT_HISTORY'[t] = CHAT_HISTORY[t]
       /\ \A t \in DOMAIN CHAT_HISTORY' \ DOMAIN CHAT_HISTORY :
              call'.thread.some /\ t = call'.thread.id
       /\ ~call'.thread.some => CHAT_HISTORY' = CHAT_HISTORY]_vars

\* after a call on t1, a call on t2 and a call without a thread id, both
\* entries hold what their own call stored
C14_Witness ==
    /\ nCalls = 3
    /\ ~call.thread.some
    /\ DOMAIN CHAT_HISTORY = {"t1", "t2"}
    /\ issued["t1"] = <<<<"hello">>>>
    /\ issued["t2"] = <<<<"please", "translate">>>>
    /\ CHAT_HISTORY["t1"] = <<"hello">>
    /\ CHAT_HISTORY["t2"] = <<"please", "translate">>
====
